---------------------------- MODULE Spec2Model ----------------------------
(***************************************************************************)
(* Model of the event-weather dashboard (src/app.py, radio navigation, and *)
(* src/main_app.py, tabbed navigation).  One script run (a Streamlit       *)
(* rerun) is one action; the memoized fetchers, the classifier artifact    *)
(* and the session state persist between runs.                             *)
(*                                                                         *)
(* Units: coordinates are in hundredths of a degree, probabilities in      *)
(* thousandths, the clock in hours.                                        *)
(***************************************************************************)
EXTENDS Integers, Sequences, FiniteSets, TLC

(***************************************************************************)
(* Bounds of the model.                                                    *)
(***************************************************************************)
FirstYear == 2024
YearSpan == 3
MaxTime == 2

(***************************************************************************)
(* Python values.  None and the JSON values are records, so that any two   *)
(* of them can be compared.                                                *)
(***************************************************************************)
None == [none |-> TRUE]

(***************************************************************************)
(* datetime.date and timedelta: a date is (year, month, day); subtracting  *)
(* days goes through the proleptic Gregorian ordinal, as date.__sub__ does.*)
(***************************************************************************)
IsLeap(y) == y % 4 = 0 /\ (y % 100 # 0 \/ y % 400 = 0)

DaysInMonth(y, m) ==
    IF m = 2 THEN (IF IsLeap(y) THEN 29 ELSE 28)
    ELSE IF m \in {4, 6, 9, 11} THEN 30 ELSE 31

RECURSIVE DaysBeforeMonth(_, _)
DaysBeforeMonth(y, m) ==
    IF m <= 1 THEN 0 ELSE DaysBeforeMonth(y, m - 1) + DaysInMonth(y, m - 1)

DaysBeforeYear(y) ==
    (y - 1) * 365 + (y - 1) \div 4 - (y - 1) \div 100 + (y - 1) \div 400

ToOrdinal(d) == DaysBeforeYear(d.year) + DaysBeforeMonth(d.year, d.month) + d.day

RECURSIVE MonthOfDay(_, _, _)
MonthOfDay(y, m, n) ==
    \* n: zero-based day of the year; the month (from m on) that holds it.
    IF n < DaysBeforeMonth(y, m + 1) THEN m ELSE MonthOfDay(y, m + 1, n)

FromOrdinal(ord) ==
    LET n0   == ord - 1
        n400 == n0 \div 146097
        r400 == n0 % 146097
        n100 == r400 \div 36524
        r100 == r400 % 36524
        n4   == r100 \div 1461
        r4   == r100 % 1461
        n1   == r4 \div 365
        r1   == r4 % 365
        y    == n400 * 400 + 1 + n100 * 100 + n4 * 4 + n1
    IN  IF n1 = 4 \/ n100 = 4
        THEN [year |-> y - 1, month |-> 12, day |-> 31]
        ELSE LET m == MonthOfDay(y, 1, r1)
             IN  [year |-> y, month |-> m, day |-> r1 - DaysBeforeMonth(y, m) + 1]

DateMinusDays(d, days) == FromOrdinal(ToOrdinal(d) - days)

(***************************************************************************)
(* The archive API, one response per offset i.  A response is what         *)
(* requests.get(url) gives: an exception, a body that is not JSON, or a    *)
(* JSON object.                                                            *)
(***************************************************************************)
Offsets == 1..5


ArchiveOk(v) ==
    [kind |-> "json", value |-> [daily |-> [precipitation_sum |-> <<v>>]]]
ArchiveNetErr == [kind |-> "neterr"]
ArchiveBadJson == [kind |-> "badjson"]
ArchiveNoData == [kind |-> "json", value |-> [error |-> TRUE]]
ArchiveEmptySum == [kind |-> "json", value |-> [daily |-> [precipitation_sum |-> <<>>]]]
ArchiveFailures == {ArchiveNetErr, ArchiveBadJson, ArchiveNoData, ArchiveEmptySum}

\* The responses of one call: the offsets in F fail in the way k, the others
\* report a rainfall that tells the offsets apart.
ArchivePattern(F, k) == [i \in Offsets |-> IF i \in F THEN k ELSE ArchiveOk(3 * i)]
ArchivePatterns == {ArchivePattern(F, k) : F \in SUBSET Offsets, k \in ArchiveFailures}

\* res['daily']['precipitation_sum'][0] evaluates without raising
ArchiveRowAvailable(res) ==
    /\ res.kind = "json"
    /\ "daily" \in DOMAIN res.value
    /\ "precipitation_sum" \in DOMAIN res.value.daily
    /\ Len(res.value.daily.precipitation_sum) >= 1

HistoryRow(past_date, res) ==
    [Year |-> past_date.year, Rainfall |-> res.value.daily.precipitation_sum[1]]

\* A failed request that throws away the rows gathered so far.
HistoryStepAbort(history_data, past_date, res) ==
    IF ArchiveRowAvailable(res)
    THEN Append(history_data, HistoryRow(past_date, res))
    ELSE <<>>

\* try: append the row; except Exception: continue
HistoryStep(history_data, past_date, res) ==
    IF ArchiveRowAvailable(res)
    THEN Append(history_data, HistoryRow(past_date, res))
    ELSE history_data

PastDate(event_date, i) == DateMinusDays(event_date, i * 365)

RECURSIVE HistoryLoop(_, _, _, _)
HistoryLoop(i, event_date, resp, history_data) ==
    \* for i in range(5, 0, -1)
    IF i < 1 THEN history_data
    ELSE HistoryLoop(i - 1, event_date, resp,
                     HistoryStep(history_data, PastDate(event_date, i), resp[i]))

get_historical_daily_rain(event_date, resp) == HistoryLoop(5, event_date, resp, <<>>)

(***************************************************************************)
(* The forecast API.  A response is what requests.get(url) gives: an       *)
(* exception, a non-2xx status, a 2xx body that is not JSON, or 2xx JSON.  *)
(***************************************************************************)
Hourly == [time |-> <<0, 1>>, precipitation_probability |-> <<10, 80>>]

ForecastJson(v) == [kind |-> "json", value |-> v]

PayloadOneDay ==
    [hourly |-> Hourly,
     daily |-> [temperature_2m_max |-> <<30>>, temperature_2m_min |-> <<20>>,
                windspeed_10m_max |-> <<10>>]]
PayloadTwoDays ==
    [hourly |-> Hourly,
     daily |-> [temperature_2m_max |-> <<25, 30>>, temperature_2m_min |-> <<15, 20>>,
                windspeed_10m_max |-> <<40, 10>>]]
PayloadNoDaily == [hourly |-> Hourly]
PayloadEmptyObject == [k \in {} |-> 0]
PayloadEmptyArrays ==
    [hourly |-> Hourly,
     daily |-> [temperature_2m_max |-> <<>>, temperature_2m_min |-> <<>>,
                windspeed_10m_max |-> <<>>]]
PayloadMissingArray ==
    [hourly |-> Hourly,
     daily |-> [temperature_2m_max |-> <<30>>, temperature_2m_min |-> <<20>>]]
PayloadNoHourly ==
    [daily |-> [temperature_2m_max |-> <<30>>, temperature_2m_min |-> <<20>>,
                windspeed_10m_max |-> <<10>>]]

ForecastNetErr == [kind |-> "neterr"]
ForecastHttpErr == [kind |-> "http", status |-> 500]
ForecastBadJson == [kind |-> "badjson"]
ForecastResponses ==
    {ForecastNetErr, ForecastHttpErr, ForecastBadJson} \cup
    {ForecastJson(v) : v \in {PayloadOneDay, PayloadTwoDays, PayloadNoDaily,
                              PayloadEmptyObject, PayloadEmptyArrays,
                              PayloadMissingArray, PayloadNoHourly}}

\* The body without res.raise_for_status(): the error body is returned.
FetchForecastNoStatusCheck(res) ==
    IF res.kind = "json" THEN [value |-> res.value, msg |-> "none"]
    ELSE IF res.kind = "http" THEN [value |-> [error |-> TRUE], msg |-> "none"]
    ELSE [value |-> None, msg |-> "error"]

\* The body of get_forecast_data: the value returned and the st.error shown.
FetchForecast(res) ==
    IF res.kind = "json"
    THEN [value |-> res.value, msg |-> "none"]
    ELSE [value |-> None, msg |-> "error"]

(***************************************************************************)
(* st.cache_data(ttl=...): entries keyed by the arguments, valid for ttl   *)
(* hours after they were stored.  The st.error of the body is stored with  *)
(* the value and replayed on a hit.                                        *)
(***************************************************************************)
ForecastTtl == 1
HistoryTtl == 6

NoCache == [k \in {} |-> 0]

CacheKey(latitude, longitude, date) == <<latitude, longitude, date>>

\* An entry that expires an hour early.
CacheFreshTooShort(entry, ttl, t) == t - entry.stored < ttl - 1

CacheFresh(entry, ttl, t) == t - entry.stored < ttl

CacheHit(cache, key, ttl, t) ==
    key \in DOMAIN cache /\ CacheFresh(cache[key], ttl, t)

\* Storing drops the entries that have expired.
CacheStore(cache, key, ttl, t, entry) ==
    LET live == {k \in DOMAIN cache : CacheFresh(cache[k], ttl, t)} \cup {key}
    IN  [k \in live |-> IF k = key THEN entry ELSE cache[k]]

(***************************************************************************)
(* The classifier artifact.  A loaded model is an opaque table from the    *)
(* three features to (predict, predict_proba[...][1]).                     *)
(***************************************************************************)
FeatureSpace == {<<30, 20, 10>>, <<25, 15, 40>>}

Answers ==
    << [predict |-> 1, proba |-> 750], [predict |-> 1, proba |-> 400],
       [predict |-> 0, proba |-> 100], [predict |-> 1, proba |-> 600],
       [predict |-> 0, proba |-> 750], [predict |-> 1, proba |-> 605] >>

Classifier(k) ==
    [table |-> [x \in FeatureSpace |->
                  IF x = <<30, 20, 10>> THEN Answers[k]
                  ELSE Answers[(k % Len(Answers)) + 1]]]

Artifacts ==
    {[kind |-> "missing"], [kind |-> "corrupt"]} \cup
    {[kind |-> "pickle", model |-> Classifier(k)] : k \in 1..Len(Answers)}

\* try: pickle.load ... except FileNotFoundError / except Exception: return None
load_model(file) == IF file.kind = "pickle" THEN file.model ELSE None

Unloaded == [unloaded |-> TRUE]

ModelTruthy(m) == m # None

(***************************************************************************)
(* Session state and its inputs.                                           *)
(***************************************************************************)
DefaultLatitude == 2840
DefaultLongitude == 7731
DefaultCrowd == 500
Tomorrow == [year |-> FirstYear, month |-> 11, day |-> 2]
DefaultTime == [hour |-> 18, minute |-> 0]

EventTypes == <<"Picnic", "Concert", "Wedding", "Sports", "Other">>

Places == {[address |-> "Faridabad", latitude |-> 2841, longitude |-> 7732]}
GeoError == [kind |-> "error"]
GeoNoMatch == [kind |-> "none"]
GeoResults == {GeoError, GeoNoMatch} \cup {[kind |-> "found", location |-> p] : p \in Places}

NoClick == [last_clicked |-> None]
Clicks == {NoClick, [last_clicked |-> [lat |-> 2861, lng |-> 7720]]}

InputDates == {Tomorrow, [year |-> FirstYear, month |-> 12, day |-> 31]}
InputTimes == {DefaultTime, [hour |-> 9, minute |-> 30]}
InputTypes == {EventTypes[1], EventTypes[3]}
InputCrowds == {DefaultCrowd, 50}

\* A failed search that puts the session back on the default location.
GeocodeResetOnFailure(latitude, longitude, g) ==
    IF g.kind = "found"
    THEN [latitude |-> g.location.latitude, longitude |-> g.location.longitude,
          msg |-> "success"]
    ELSE [latitude |-> DefaultLatitude, longitude |-> DefaultLongitude,
          msg |-> IF g.kind = "none" THEN "warning" ELSE "error"]

\* Lines 88-97: the outcome of geolocator.geocode on the session coordinates.
Geocode(latitude, longitude, g) ==
    IF g.kind = "found"
    THEN [latitude |-> g.location.latitude, longitude |-> g.location.longitude,
          msg |-> "success"]
    ELSE IF g.kind = "none"
    THEN [latitude |-> latitude, longitude |-> longitude, msg |-> "warning"]
    ELSE [latitude |-> latitude, longitude |-> longitude, msg |-> "error"]

\* Lines 103-105: a click on the map overrides the coordinates.
MapClick(latitude, longitude, map_data) ==
    IF map_data.last_clicked # None
    THEN [latitude |-> map_data.last_clicked.lat, longitude |-> map_data.last_clicked.lng]
    ELSE [latitude |-> latitude, longitude |-> longitude]

(***************************************************************************)
(* The views.                                                              *)
(***************************************************************************)
\* Python truth value of forecast_data: None and the empty dict are false.
Truthy(v) == v # None /\ DOMAIN v # {}

\* The guard without "model and".
PredictionGuardNoModel(model, forecast_data) ==
    /\ Truthy(forecast_data)
    /\ "daily" \in DOMAIN forecast_data

\* The guard without "'daily' in forecast_data".
PredictionGuardNoKey(model, forecast_data) ==
    /\ ModelTruthy(model)
    /\ Truthy(forecast_data)

\* if model and forecast_data and 'daily' in forecast_data
PredictionGuard(model, forecast_data) ==
    /\ ModelTruthy(model)
    /\ Truthy(forecast_data)
    /\ "daily" \in DOMAIN forecast_data

FeatureNames == <<"temperature_2m_max", "temperature_2m_min", "windspeed_10m_max">>

\* The entry of an array that the views read: daily_data[name][0].
DailyEntry(array) == array[1]

RECURSIVE FeatureError(_, _)
FeatureError(daily_data, k) ==
    \* the first exception that building input_df raises, "none" if it is built
    IF k > Len(FeatureNames) THEN "none"
    ELSE IF FeatureNames[k] \notin DOMAIN daily_data THEN "KeyError"
    ELSE IF Len(daily_data[FeatureNames[k]]) = 0 THEN "IndexError"
    ELSE FeatureError(daily_data, k + 1)

InputDf(daily_data) ==
    [k \in 1..Len(FeatureNames) |-> DailyEntry(daily_data[FeatureNames[k]])]

\* The exception raised between the guard and the first call of the model:
\* forecast_data['daily'], the three daily_data[...][0], model.predict...
InputError(model, forecast_data) ==
    IF forecast_data = None THEN "TypeError"
    ELSE IF "daily" \notin DOMAIN forecast_data THEN "KeyError"
    ELSE IF FeatureError(forecast_data.daily, 1) # "none"
    THEN FeatureError(forecast_data.daily, 1)
    ELSE IF model = None THEN "AttributeError"
    ELSE "none"

\* f"{x:.0f}" of x = n/d: round to nearest, ties to even
RoundHalfEven(n, d) ==
    LET q == n \div d
        r == n % d
    IN  IF 2 * r > d THEN q + 1
        ELSE IF 2 * r = d THEN q + (q % 2)
        ELSE q

\* f"{prediction_proba*100:.1f}%": percent and tenths of a percent
FormatPct1(proba) == [percent |-> proba \div 10, tenths |-> proba % 10]
\* f"{prediction_proba*100:.0f}%"
FormatPct0(proba) == RoundHalfEven(proba, 10)

HiddenView == [state |-> "hidden", calls |-> 0, exc |-> "none"]

\* Forecast Dashboard section (app.py 123-151, main_app.py tab2)
Dashboard(model, forecast_data) ==
    IF ~PredictionGuard(model, forecast_data)
    THEN [state |-> "warning", calls |-> 0, exc |-> "none"]
    ELSE IF InputError(model, forecast_data) # "none"
    THEN [state |-> "exception", calls |-> 0, exc |-> InputError(model, forecast_data)]
    ELSE LET daily_data == forecast_data.daily
             input_df == InputDf(daily_data)
             prediction_proba == model.table[input_df].proba
         IN  IF "hourly" \notin DOMAIN forecast_data
             THEN [state |-> "exception", calls |-> 1, exc |-> "KeyError",
                   input_df |-> input_df]
             ELSE [state |-> "metrics", calls |-> 1, exc |-> "none",
                   input_df |-> input_df,
                   rain_probability |-> FormatPct1(prediction_proba),
                   max_temperature |-> DailyEntry(daily_data.temperature_2m_max),
                   max_wind_speed |-> DailyEntry(daily_data.windspeed_10m_max)]

HighRiskThreshold == 600

\* The threshold taken as >= 0.6.
RiskTierInclusive(prediction, prediction_proba) ==
    IF prediction = 1 /\ prediction_proba >= HighRiskThreshold THEN "High Risk of Rain"
    ELSE IF prediction = 1 THEN "Moderate Risk of Showers"
    ELSE "Low Risk of Rain"

\* Lines 182-193: the tier of the prediction.
RiskTier(prediction, prediction_proba) ==
    IF prediction = 1 /\ prediction_proba > HighRiskThreshold THEN "High Risk of Rain"
    ELSE IF prediction = 1 THEN "Moderate Risk of Showers"
    ELSE "Low Risk of Rain"

\* The message with the event type named in both files.
SuggestionTextNamed(file, prediction, prediction_proba, type) ==
    [advice |-> IF RiskTier(prediction, prediction_proba) = "High Risk of Rain"
                THEN "indoor backup plan"
                ELSE IF RiskTier(prediction, prediction_proba) = "Moderate Risk of Showers"
                THEN "covered areas on standby"
                ELSE "conditions look favorable",
     percent |-> IF prediction = 1 THEN FormatPct0(prediction_proba)
                 ELSE RoundHalfEven(1000 - prediction_proba, 10),
     event_type |-> type]

\* The message: main_app.py names the event type in it, app.py does not.
SuggestionText(file, prediction, prediction_proba, type) ==
    LET tier == RiskTier(prediction, prediction_proba)
        named == IF file = "main_app" THEN type ELSE ""
    IN  IF tier = "High Risk of Rain"
        THEN [advice |-> "indoor backup plan", percent |-> FormatPct0(prediction_proba),
              event_type |-> named]
        ELSE IF tier = "Moderate Risk of Showers"
        THEN [advice |-> "covered areas on standby", percent |-> FormatPct0(prediction_proba),
              event_type |-> named]
        ELSE [advice |-> "conditions look favorable",
              percent |-> RoundHalfEven(1000 - prediction_proba, 10),
              event_type |-> named]

\* Suggestions section (app.py 165-195, main_app.py tab4)
Suggestions(file, model, forecast_data, type) ==
    IF ~PredictionGuard(model, forecast_data)
    THEN [state |-> "unavailable", calls |-> 0, exc |-> "none"]
    ELSE IF InputError(model, forecast_data) # "none"
    THEN [state |-> "exception", calls |-> 0, exc |-> InputError(model, forecast_data)]
    ELSE LET daily_data == forecast_data.daily
             input_df == InputDf(daily_data)
             prediction == model.table[input_df].predict
             prediction_proba == model.table[input_df].proba
         IN  [state |-> "risk", calls |-> 2, exc |-> "none",
              input_df |-> input_df,
              prediction |-> prediction,
              prediction_proba |-> prediction_proba,
              will_it_rain |-> IF prediction = 1 THEN "Yes" ELSE "No",
              chances |-> FormatPct1(prediction_proba),
              risk_level |-> RiskTier(prediction, prediction_proba),
              suggestion |-> SuggestionText(file, prediction, prediction_proba, type)]

\* History section: the chart if the frame has rows, else the warning.
HistoryView(rows) == IF Len(rows) > 0 THEN "chart" ELSE "warning"

(***************************************************************************)
(* State.                                                                  *)
(***************************************************************************)
VARIABLES
    script,          \* which file runs: "app" (radio) or "main_app" (tabs)
    artifact,        \* the file daily_rain_classifier.pkl
    model_cache,     \* st.cache_resource of load_model
    section,         \* the radio's value (app.py)
    latitude, longitude, event_date, event_time, event_type, crowd_size,
    now,             \* the clock, in hours
    forecast_cache,  \* st.cache_data of get_forecast_data
    history_cache,   \* st.cache_data of get_historical_daily_rain
    requests,        \* per key, the last forecast request sent: when, and its result
    started,         \* whether the script has run in this session
    world,           \* which part of the surroundings varies in this session
    \* what the last run did and rendered
    response,        \* what the forecast API answered in the last run, None on a hit
    forecast_data, forecast_msg, fetched,
    geocoded,        \* what geolocator.geocode gave in the last run
    geo_msg, map_center,
    dashboard, history_df, history_view, archive, suggestions,
    shown,           \* the risk the Suggestions view rendered last, None before
    escaped          \* the exception that ended the run, "none" if it completed

session == <<latitude, longitude, event_date, event_time, event_type, crowd_size>>
caches == <<model_cache, forecast_cache, history_cache, requests>>
rendered == <<response, forecast_data, forecast_msg, fetched, geocoded, geo_msg,
              map_center, dashboard,
              history_df, history_view, archive, suggestions, shown, escaped>>
vars == <<world, script, artifact, section, now, started, session, caches, rendered>>

Sections == {"Event Input", "Forecast Dashboard", "History", "Suggestions"}

NoArchive == [i \in Offsets |-> ArchiveNetErr]

\* Before the first run: the session defaults of lines 58-69, nothing rendered.
Fresh ==
    /\ model_cache = Unloaded
    /\ section = "Event Input"
    /\ latitude = DefaultLatitude
    /\ longitude = DefaultLongitude
    /\ event_time = DefaultTime
    /\ event_type = "Picnic"
    /\ crowd_size = DefaultCrowd
    /\ now = 0
    /\ forecast_cache = NoCache
    /\ history_cache = NoCache
    /\ requests = NoCache
    /\ started = FALSE
    /\ response = None
    /\ geocoded = None
    /\ forecast_data = None
    /\ forecast_msg = "none"
    /\ fetched = FALSE
    /\ geo_msg = "none"
    /\ map_center = None
    /\ dashboard = HiddenView
    /\ history_df = None
    /\ history_view = "hidden"
    /\ archive = NoArchive
    /\ suggestions = HiddenView
    /\ shown = None
    /\ escaped = "none"

(***************************************************************************)
(* The surroundings of a session: what the user enters and what the        *)
(* services answer.  Each world varies one part of them and keeps the      *)
(* others at their usual answer: the geocoder finds the place, the         *)
(* forecast has one record for the day, two of the archive's years fail.   *)
(***************************************************************************)
Found == [kind |-> "found", location |-> CHOOSE p \in Places : TRUE]
UsualForecast == ForecastJson(PayloadTwoDays)
UsualArchive == ArchivePattern({2, 4}, ArchiveBadJson)
UsualArtifact == [kind |-> "pickle", model |-> Classifier(1)]

Usual ==
    [scripts |-> {"app", "main_app"}, artifacts |-> {UsualArtifact},
     geo |-> {Found}, clicks |-> {NoClick},
     responses |-> {UsualForecast}, patterns |-> {UsualArchive},
     dates |-> {Tomorrow}, times |-> {DefaultTime}, types |-> {"Picnic"},
     crowds |-> {DefaultCrowd}, hours |-> 0]

World(w) ==
    IF w = "views"
    THEN [Usual EXCEPT !.artifacts = Artifacts, !.responses = ForecastResponses,
                       !.types = InputTypes, !.crowds = InputCrowds]
    ELSE IF w = "fetch"
    THEN [Usual EXCEPT !.responses = {ForecastNetErr, ForecastHttpErr, ForecastBadJson,
                                      ForecastJson(PayloadNoDaily), UsualForecast},
                       !.dates = InputDates, !.hours = MaxTime]
    ELSE [Usual EXCEPT !.geo = GeoResults, !.clicks = Clicks, !.times = InputTimes,
                       !.patterns = {UsualArchive, ArchivePattern(Offsets, ArchiveNetErr)}]

Worlds == {"views", "fetch", "input"}

Init ==
    /\ world \in Worlds
    /\ script \in World(world).scripts
    /\ artifact \in World(world).artifacts
    /\ event_date = Tomorrow
    /\ Fresh

\* Whether a run with the radio on sec executes the section named view.
Runs(sec, view) == script = "main_app" \/ sec = view

(***************************************************************************)
(* One run of the script, top to bottom, with the radio on sec and the     *)
(* four form widgets returning d, t, ty and c.  The geocoder's answer, the *)
(* map's last click and the APIs' responses are the environment's.         *)
(***************************************************************************)
Script(sec, d, t, ty, c) ==
    LET input == Runs(sec, "Event Input") IN
    /\ started' = TRUE
    /\ section' = sec
    /\ UNCHANGED <<world, script, artifact, now>>
    /\ \E model \in {IF model_cache = Unloaded THEN load_model(artifact) ELSE model_cache},
          g \in (IF input THEN World(world).geo ELSE {GeoNoMatch}),
          map_data \in (IF input THEN World(world).clicks ELSE {NoClick}) :
       \E geo \in {Geocode(latitude, longitude, g)} :
       \E spot \in {MapClick(geo.latitude, geo.longitude, map_data)} :
       \E lat \in {IF input THEN spot.latitude ELSE latitude},
          lon \in {IF input THEN spot.longitude ELSE longitude},
          date \in {IF input THEN d ELSE event_date},
          type \in {IF input THEN ty ELSE event_type} :
       \E key \in {CacheKey(lat, lon, date)} :
       \E hit \in {CacheHit(forecast_cache, key, ForecastTtl, now)} :
       \E res \in (IF hit THEN {ForecastNetErr} ELSE World(world).responses) :
       \E got \in {IF hit THEN forecast_cache[key]
                   ELSE [stored |-> now] @@ FetchForecast(res)} :
       \E dash \in {IF Runs(sec, "Forecast Dashboard")
                    THEN Dashboard(model, got.value) ELSE HiddenView} :
       \E hrun \in {Runs(sec, "History") /\ dash.exc = "none"},
          hhit \in {CacheHit(history_cache, key, HistoryTtl, now)} :
       \E resp \in (IF hrun /\ ~hhit THEN World(world).patterns ELSE {NoArchive}) :
       \E frame \in {IF ~hrun THEN None
                     ELSE IF hhit THEN history_cache[key]
                     ELSE [stored |-> now,
                           rows |-> get_historical_daily_rain(date, resp)]},
          sugg \in {IF Runs(sec, "Suggestions") /\ dash.exc = "none"
                    THEN Suggestions(script, model, got.value, type)
                    ELSE HiddenView} :
        /\ model_cache' = model
        /\ latitude' = lat
        /\ longitude' = lon
        /\ event_date' = date
        /\ event_time' = (IF input THEN t ELSE event_time)
        /\ event_type' = type
        /\ crowd_size' = (IF input THEN c ELSE crowd_size)
        /\ geo_msg' = (IF input THEN geo.msg ELSE "none")
        /\ map_center' = (IF input THEN [latitude |-> geo.latitude,
                                         longitude |-> geo.longitude]
                          ELSE None)
        /\ fetched' = ~hit
        /\ response' = (IF hit THEN None ELSE res)
        /\ geocoded' = (IF input THEN g ELSE None)
        /\ forecast_cache' = (IF hit THEN forecast_cache
                              ELSE CacheStore(forecast_cache, key, ForecastTtl, now, got))
        /\ requests' = (IF hit THEN requests
                        ELSE [k \in DOMAIN requests \cup {key} |->
                                IF k = key THEN [time |-> now, value |-> got.value]
                                ELSE requests[k]])
        /\ forecast_data' = got.value
        /\ forecast_msg' = got.msg
        /\ dashboard' = dash
        /\ history_cache' = (IF hrun /\ ~hhit
                             THEN CacheStore(history_cache, key, HistoryTtl, now, frame)
                             ELSE history_cache)
        /\ archive' = (IF hrun /\ ~hhit THEN resp ELSE archive)
        /\ history_df' = (IF hrun THEN [rows |-> frame.rows] ELSE None)
        /\ history_view' = (IF hrun THEN HistoryView(frame.rows) ELSE "hidden")
        /\ suggestions' = sugg
        /\ shown' = (IF sugg.state = "risk"
                     THEN [prediction |-> sugg.prediction,
                           prediction_proba |-> sugg.prediction_proba,
                           risk_level |-> sugg.risk_level,
                           suggestion |-> sugg.suggestion]
                     ELSE shown)
        /\ escaped' = (IF dash.exc # "none" THEN dash.exc ELSE sugg.exc)

\* The first run, and any run that no widget change caused.
Refresh == Script(section, event_date, event_time, event_type, crowd_size)

\* app.py: the sidebar radio.
Navigate ==
    /\ script = "app"
    /\ started
    /\ \E sec \in Sections \ {section} :
        Script(sec, event_date, event_time, event_type, crowd_size)

\* The form widgets are on screen after a run that rendered Event Input.
FormShown == started /\ Runs(section, "Event Input")

EditDate ==
    /\ FormShown
    /\ \E d \in World(world).dates \ {event_date} :
        Script(section, d, event_time, event_type, crowd_size)

EditTime ==
    /\ FormShown
    /\ \E t \in World(world).times \ {event_time} :
        Script(section, event_date, t, event_type, crowd_size)

EditType ==
    /\ FormShown
    /\ \E ty \in World(world).types \ {event_type} :
        Script(section, event_date, event_time, ty, crowd_size)

EditCrowd ==
    /\ FormShown
    /\ \E c \in World(world).crowds \ {crowd_size} :
        Script(section, event_date, event_time, event_type, c)

Tick ==
    /\ now < World(world).hours
    /\ now' = now + 1
    /\ UNCHANGED <<world, script, artifact, section, started, session, caches, rendered>>

Next == Refresh \/ Navigate \/ EditDate \/ EditTime \/ EditType \/ EditCrowd \/ Tick

Spec == Init /\ [][Next]_vars

(***************************************************************************)
(* get_historical_daily_rain alone, over the dates around the month and    *)
(* year ends and every pattern of failing requests.                        *)
(***************************************************************************)
HistoryDays == {1, 28, 29, 30, 31}
HistoryDates ==
    {d \in [year : FirstYear..(FirstYear + YearSpan), month : 1..12, day : HistoryDays] :
        d.day <= DaysInMonth(d.year, d.month)}

HistoryInit ==
    /\ world = "input"
    /\ script = "app"
    /\ artifact = UsualArtifact
    /\ event_date \in HistoryDates
    /\ Fresh

CallHistory ==
    /\ history_df = None
    /\ \E resp \in ArchivePatterns :
        /\ archive' = resp
        /\ history_df' = [rows |-> get_historical_daily_rain(event_date, resp)]
        /\ history_view' = HistoryView(history_df'.rows)
    /\ UNCHANGED <<world, script, artifact, section, now, started, session, caches,
                   response, forecast_data, forecast_msg, fetched, geocoded, geo_msg,
                   map_center,
                   dashboard, suggestions, shown, escaped>>

HistoryNext == CallHistory

SpecHistory == HistoryInit /\ [][HistoryNext]_vars

(***************************************************************************)
(* Properties.                                                             *)
(***************************************************************************)
\* The arguments of the run's call of get_forecast_data.
Arguments == <<latitude, longitude, event_date>>

\* A step that runs the script (the clock stands still).
ScriptRan == now' = now

\* C1: a call of get_forecast_data with the arguments of an earlier request
\* that is less than one hour old sends no request of its own and returns
\* what that request returned, so the two calls cost one request in total.
C1_OneRequestPerWindow ==
    [][(/\ ScriptRan
        /\ Arguments' \in DOMAIN requests
        /\ now - requests[Arguments'].time < ForecastTtl)
       => (/\ fetched' = FALSE
           /\ forecast_data' = requests[Arguments'].value)]_vars

\* A second call inside the window of a request that failed, after a request
\* for another date in between.
C1_Witness ==
    /\ started
    /\ ~fetched
    /\ Cardinality(DOMAIN requests) = 2
    /\ Arguments \in DOMAIN requests
    /\ now - requests[Arguments].time < ForecastTtl
    /\ forecast_data = None

HistoryCalled == history_df # None /\ ~started

\* C2: get_historical_daily_rain returns at most five rows and every Year
\* is event_date.year - i for an i in 1..5.
C2_YearsAreThePastFive ==
    HistoryCalled =>
        /\ Len(history_df.rows) <= 5
        /\ \A k \in 1..Len(history_df.rows) :
            \E i \in Offsets : history_df.rows[k].Year = event_date.year - i

\* The offsets whose request succeeded, from the oldest (5) to the newest (1).
RECURSIVE Succeeded(_)
Succeeded(i) ==
    IF i < 1 THEN <<>>
    ELSE IF archive[i] \in ArchiveFailures THEN Succeeded(i - 1)
    ELSE Succeeded(i - 1) \o <<i>>

Reverse(q) == [k \in 1..Len(q) |-> q[Len(q) + 1 - k]]

\* C8: the result has exactly one row for each offset whose request
\* succeeded, none for the others, ordered from offset 5 down to offset 1;
\* the row of offset i has the year of event_date - i*365 days and the
\* rainfall that request reported.
C8_FailuresDropOnlyTheirOffset ==
    HistoryCalled =>
        LET kept == Reverse(Succeeded(5))
        IN  /\ Len(history_df.rows) = Len(kept)
            /\ \A k \in 1..Len(kept) :
                /\ history_df.rows[k].Year =
                       FromOrdinal(ToOrdinal(event_date) - 365 * kept[k]).year
                /\ history_df.rows[k].Rainfall =
                       archive[kept[k]].value.daily.precipitation_sum[1]

\* Offsets 2 and 4 fail in the middle of the loop, the other three stay.
C8_Witness ==
    /\ HistoryCalled
    /\ archive[2] = ArchiveNoData
    /\ archive[4] = ArchiveNoData
    /\ Len(history_df.rows) = 3
    /\ history_df.rows[1].Rainfall = 15
    /\ history_df.rows[3].Rainfall = 3

\* C3: when the Suggestions view shows a risk, it is exactly one of the
\* three tiers: High iff prediction = 1 and probability > 0.6, Moderate iff
\* prediction = 1 and probability <= 0.6, Low iff prediction is not 1.
C3_TiersPartition ==
    suggestions.state = "risk" =>
        LET tier == suggestions.risk_level
            p == suggestions.prediction
            q == suggestions.prediction_proba
        IN  /\ tier \in {"High Risk of Rain", "Moderate Risk of Showers",
                         "Low Risk of Rain"}
            /\ (tier = "High Risk of Rain") <=> (p = 1 /\ q > 600)
            /\ (tier = "Moderate Risk of Showers") <=> (p = 1 /\ q <= 600)
            /\ (tier = "Low Risk of Rain") <=> (p # 1)

\* The boundary: rain predicted with probability exactly 0.6 is Moderate.
C3_Witness ==
    /\ suggestions.state = "risk"
    /\ suggestions.prediction = 1
    /\ suggestions.prediction_proba = 600
    /\ suggestions.risk_level = "Moderate Risk of Showers"

\* C4: when the artifact is missing or does not deserialize, load_model
\* gives None, and a run renders the warning of the Forecast Dashboard and
\* of the Suggestions view (each where its section runs) without a call of
\* the model and without an exception, whatever the forecast is.
C4_NoModelDegrades ==
    (started /\ artifact.kind # "pickle") =>
        /\ model_cache = None
        /\ dashboard.state = (IF Runs(section, "Forecast Dashboard")
                              THEN "warning" ELSE "hidden")
        /\ suggestions.state = (IF Runs(section, "Suggestions")
                                THEN "unavailable" ELSE "hidden")
        /\ dashboard.calls = 0
        /\ suggestions.calls = 0
        /\ escaped = "none"

\* The file is corrupt, the forecast has its daily record, both views warn.
C4_Witness ==
    /\ started
    /\ artifact.kind = "corrupt"
    /\ forecast_data = PayloadOneDay
    /\ dashboard.state = "warning"
    /\ suggestions.state = "unavailable"

NoDailyKey(v) == v # None /\ "daily" \notin DOMAIN v

\* C5: when the forecast is a JSON object without the daily key, the
\* Forecast Dashboard and the Suggestions view render their warning, read
\* no daily data and do not call the model.
C5_NoDailyKeyFallsBack ==
    (started /\ NoDailyKey(forecast_data)) =>
        /\ dashboard.state = (IF Runs(section, "Forecast Dashboard")
                              THEN "warning" ELSE "hidden")
        /\ suggestions.state = (IF Runs(section, "Suggestions")
                                THEN "unavailable" ELSE "hidden")
        /\ dashboard.calls = 0
        /\ suggestions.calls = 0
        /\ escaped = "none"

\* The model is loaded and the object has other keys, but not daily.
C5_Witness ==
    /\ started
    /\ model_cache \notin {None, Unloaded}
    /\ forecast_data = PayloadNoDaily
    /\ dashboard.state = "warning"
    /\ suggestions.state = "unavailable"

\* C6: when geocoding fails (the service raises, or finds no match) the
\* coordinates the session had are the ones the map is centred on, a
\* message is shown, and the run goes on to the forecast.
C6_GeocodeFailureKeepsCoordinates ==
    [][(ScriptRan /\ geocoded' # None /\ geocoded'.kind \in {"error", "none"})
       => (/\ map_center' = [latitude |-> latitude, longitude |-> longitude]
           /\ geo_msg' = (IF geocoded'.kind = "none" THEN "warning" ELSE "error")
           /\ escaped' = "none")]_vars

\* The service raises while the session holds the coordinates of a click.
C6_Witness ==
    /\ geocoded # None
    /\ geocoded.kind = "error"
    /\ map_center # None
    /\ map_center.latitude = 2861
    /\ geo_msg = "error"

Failed(res) == res.kind \in {"neterr", "http", "badjson"}

\* C7 as claimed: a call whose request failed, or whose payload lacks the
\* daily key, returns None with a message.
C7_NoResultOnAnyFailure ==
    (started /\ fetched /\ (Failed(response) \/ "daily" \notin DOMAIN response.value)) =>
        (forecast_data = None /\ forecast_msg = "error")

\* C7 as amended: on a network error, a non-2xx status or a body that is
\* not JSON the call returns None with a message; any 2xx JSON body is
\* returned as it is, without a message.
C7_NoResultOnRequestFailure ==
    (started /\ fetched) =>
        /\ Failed(response) => (forecast_data = None /\ forecast_msg = "error")
        /\ ~Failed(response) => (forecast_data = response.value /\ forecast_msg = "none")

\* A non-2xx status: no result, and the message.
C7_Witness ==
    /\ started
    /\ fetched
    /\ response.kind = "http"
    /\ forecast_data = None
    /\ forecast_msg = "error"

FirstEntries(daily) ==
    <<daily.temperature_2m_max[1], daily.temperature_2m_min[1], daily.windspeed_10m_max[1]>>

NoDailyRecord(v) ==
    /\ v # None
    /\ \/ "daily" \notin DOMAIN v
       \/ \E name \in {"temperature_2m_max", "temperature_2m_min", "windspeed_10m_max"} :
            name \notin DOMAIN v.daily \/ v.daily[name] = <<>>

\* C9: a view that computes a prediction feeds the model the first entries
\* of the three daily arrays; and when the forecast has no daily record no
\* prediction is computed and the run does not fail.
C9_FirstRecordOrNoPrediction ==
    /\ dashboard.calls > 0 => dashboard.input_df = FirstEntries(forecast_data.daily)
    /\ suggestions.calls > 0 => suggestions.input_df = FirstEntries(forecast_data.daily)
    /\ (started /\ NoDailyRecord(forecast_data)) =>
        /\ dashboard.calls = 0
        /\ suggestions.calls = 0
        /\ escaped = "none"

Rendered(view) == view.state = "risk"

\* C10 as claimed: a risk rendered for the prediction and probability of
\* the risk rendered before has the same tier and the same message.
C10_SameOutputSameText ==
    [][(/\ ScriptRan
        /\ Rendered(suggestions')
        /\ shown # None
        /\ suggestions'.prediction = shown.prediction
        /\ suggestions'.prediction_proba = shown.prediction_proba)
       => (/\ suggestions'.risk_level = shown.risk_level
           /\ suggestions'.suggestion = shown.suggestion)]_vars

\* C10 as amended: the tier, the advice and the percentage are the same; the
\* message of main_app.py also names the session's event type, the message
\* of app.py names none.
C10_SameOutputSameTier ==
    [][(/\ ScriptRan
        /\ Rendered(suggestions')
        /\ shown # None
        /\ suggestions'.prediction = shown.prediction
        /\ suggestions'.prediction_proba = shown.prediction_proba)
       => (/\ suggestions'.risk_level = shown.risk_level
           /\ suggestions'.suggestion =
                  [shown.suggestion EXCEPT
                     !.event_type = IF script = "main_app" THEN event_type' ELSE ""])]_vars

\* The same risk is on screen again after the crowd size and the event type
\* changed.
C10_Witness ==
    /\ Rendered(suggestions)
    /\ shown # None
    /\ crowd_size # DefaultCrowd
    /\ event_type # "Picnic"
    /\ suggestions.suggestion.percent = 60

\* C11: the Year values of the rows that get_historical_daily_rain returns
\* are strictly increasing in row order, hence pairwise distinct: the chart
\* of the History section has at most one bar per year.
C11_YearsStrictlyIncrease ==
    HistoryCalled =>
        \A j, k \in 1..Len(history_df.rows) :
            j < k => history_df.rows[j].Year < history_df.rows[k].Year

=============================================================================
